---- MODULE Spec2Model ----
(***************************************************************************)
(* The two scrapers of "Basic E-commerce Scrapper": scraper.py (class      *)
(* based extraction, fail-hard fetch) and Advanced.py (pattern based       *)
(* extraction, fail-soft fetch).  One run of main() is modelled: the       *)
(* pagination loop fetch -> parse_products -> get_next_page, then          *)
(* save_to_csv and (scraper.py) the summary.                               *)
(*                                                                         *)
(* Text is a sequence of one-character strings, so that strip(), lower(),  *)
(* "in", re.sub and float() are computed and not assumed.                  *)
(***************************************************************************)
EXTENDS Integers, Sequences, FiniteSets, TLC

\* Number of pages the site serves (page 1 is BASE_URL).
MaxPages == 2

\* The loop of main() is unbounded; a crawl is followed for this many requests.
\* Every acyclic chain of "next" links is at most MaxPages + 1 requests long.
MaxFetches == MaxPages + 1

-----------------------------------------------------------------------------
\* Text helpers (str methods and re calls used by the scrapers)

LowerMap == ("A" :> "a") @@ ("B" :> "b") @@ ("C" :> "c") @@ ("D" :> "d") @@ ("E" :> "e") @@ ("F" :> "f") @@ ("G" :> "g") @@ ("H" :> "h") @@ ("I" :> "i") @@ ("J" :> "j") @@ ("K" :> "k") @@ ("L" :> "l") @@ ("M" :> "m") @@ ("N" :> "n") @@ ("O" :> "o") @@ ("P" :> "p") @@ ("Q" :> "q") @@ ("R" :> "r") @@ ("S" :> "s") @@ ("T" :> "t") @@ ("U" :> "u") @@ ("V" :> "v") @@ ("W" :> "w") @@ ("X" :> "x") @@ ("Y" :> "y") @@ ("Z" :> "z")

\* str.lower()
lower(s) == [i \in 1..Len(s) |-> IF s[i] \in DOMAIN LowerMap THEN LowerMap[s[i]] ELSE s[i]]

Whitespace == {" "}

RECURSIVE lstrip(_)
lstrip(s) == IF s # <<>> /\ Head(s) \in Whitespace THEN lstrip(Tail(s)) ELSE s

RECURSIVE rstrip(_)
rstrip(s) == IF s # <<>> /\ s[Len(s)] \in Whitespace THEN rstrip(SubSeq(s, 1, Len(s) - 1)) ELSE s

\* str.strip()
strip(s) == rstrip(lstrip(s))

\* sub in s   (also re.search of a literal pattern)
contains(s, sub) == \E i \in 0..(Len(s) - Len(sub)) : SubSeq(s, i + 1, i + Len(sub)) = sub

Digits == {"0", "1", "2", "3", "4", "5", "6", "7", "8", "9"}

\* re.sub(r"[^0-9.]", "", s)
RECURSIVE re_sub_non_numeric(_)
re_sub_non_numeric(s) == IF s = <<>> THEN <<>> ELSE (IF Head(s) \in Digits \cup {"."} THEN <<Head(s)>> ELSE <<>>) \o re_sub_non_numeric(Tail(s))

\* Whether float(s) succeeds, for s made of digits and points only:
\* at least one digit and at most one point.
float_ok(s) == /\ \E i \in 1..Len(s) : s[i] \in Digits
               /\ Cardinality({i \in 1..Len(s) : s[i] = "."}) <= 1

RECURSIVE strip_leading_zeros(_)
strip_leading_zeros(s) == IF Len(s) > 1 /\ Head(s) = "0" THEN strip_leading_zeros(Tail(s)) ELSE s

RECURSIVE strip_trailing_zeros(_)
strip_trailing_zeros(s) == IF Len(s) > 1 /\ s[Len(s)] = "0" THEN strip_trailing_zeros(SubSeq(s, 1, Len(s) - 1)) ELSE s

\* repr(float(s)) for a short decimal s that float() accepts: "51.770" -> "51.77",
\* "5" -> "5.0", ".5" -> "0.5".
float_repr(s) ==
    LET dots == {i \in 1..Len(s) : s[i] = "."}
        dot == IF dots = {} THEN Len(s) + 1 ELSE CHOOSE i \in dots : TRUE
        ip == SubSeq(s, 1, dot - 1)
        fp == SubSeq(s, dot + 1, Len(s))
    IN  strip_leading_zeros(IF ip = <<>> THEN <<"0">> ELSE ip) \o <<".">> \o strip_trailing_zeros(IF fp = <<>> THEN <<"0">> ELSE fp)

-----------------------------------------------------------------------------
\* Python values held in a row: a type and the text str() gives

PyStr(s) == [type |-> "str", text |-> s]

PyNone == [type |-> "NoneType", text |-> <<"N", "o", "n", "e">>]

PyFloat(s) == [type |-> "float", text |-> float_repr(s)]

PyInt(n) == [type |-> "int", text |-> <<<<"0", "1", "2", "3", "4", "5">>[n + 1]>>]

-----------------------------------------------------------------------------
\* Markup, as the queries of the scrapers see it (BeautifulSoup, html.parser)

T_product_pod == <<"p", "r", "o", "d", "u", "c", "t", "_", "p", "o", "d">>
T_price_color == <<"p", "r", "i", "c", "e", "_", "c", "o", "l", "o", "r">>
T_instock == <<"i", "n", "s", "t", "o", "c", "k">>
T_availability == <<"a", "v", "a", "i", "l", "a", "b", "i", "l", "i", "t", "y">>
T_star_rating == <<"s", "t", "a", "r", "-", "r", "a", "t", "i", "n", "g">>
T_One == <<"O", "n", "e">>
T_Two == <<"T", "w", "o">>
T_Three == <<"T", "h", "r", "e", "e">>
T_Four == <<"F", "o", "u", "r">>
T_Five == <<"F", "i", "v", "e">>
T_Zero == <<"Z", "e", "r", "o">>
S_pound == <<"£">>
S_stock == <<"s", "t", "o", "c", "k">>
S_in_stock == <<"i", "n", " ", "s", "t", "o", "c", "k">>
S_In_Stock == <<"I", "n", " ", "S", "t", "o", "c", "k">>
S_Out_of_Stock == <<"O", "u", "t", " ", "o", "f", " ", "S", "t", "o", "c", "k">>
S_question == <<"?">>

\* A <p> of a product: its class tokens, its text, and whether the text is its
\* only child (Tag.string is None otherwise, e.g. beside an <i> icon).
P(classes, text, solo) == [classes |-> classes, text |-> text, solo |-> solo]

\* The <h3> of a product: absent, without <a>, <a> without title=, or <a title=...>.
NoH3 == [kind |-> "NoH3", title |-> <<>>]
H3NoLink == [kind |-> "NoLink", title |-> <<>>]
LinkNoTitle == [kind |-> "NoTitle", title |-> <<>>]
LinkTitle(t) == [kind |-> "Title", title |-> t]

\* An <article>: its class tokens, its <h3> and its <p> descendants in document order.
Article(classes, h3, ps) == [classes |-> classes, h3 |-> h3, ps |-> ps]

\* Sample markup
X_price == <<"£", "5", "1", ".", "7", "7", "0">>
X_noprice == <<"n", "o", " ", "p", "r", "i", "c", "e", " ", "i", "n", "f", "o">>
X_instock == <<" ", "I", "n", " ", "s", "t", "o", "c", "k", " ", "(", "1", "9", " ", "a", "v", "a", "i", "l", "a", "b", "l", "e", ")", " ">>
X_outstock == <<"O", "u", "t", " ", "o", "f", " ", "s", "t", "o", "c", "k">>
X_INSTOCK == <<"I", "N", " ", "S", "T", "O", "C", "K">>

P_price == P(<<T_price_color>>, X_price, TRUE)
P_noprice == P(<<T_price_color>>, X_noprice, TRUE)
P_instock_icon == P(<<T_instock, T_availability>>, X_instock, FALSE)
P_outstock == P(<<T_instock, T_availability>>, X_outstock, TRUE)
P_INSTOCK_plain == P(<<T_availability>>, X_INSTOCK, TRUE)
P_rating(word) == P(<<T_star_rating, word>>, <<>>, FALSE)

\* the listing of books.toscrape.com: title with padding, price, stock beside an icon, rating
cGood == Article(<<T_product_pod>>, LinkTitle(<<" ", "A", " ">>), <<P_rating(T_Three), P_price, P_instock_icon>>)
\* no price, no rating, stock text in a <p class="availability">
cPlain == Article(<<T_product_pod>>, LinkTitle(<<"B">>), <<P_INSTOCK_plain>>)
\* out of stock, unparseable price, unknown rating word
cOut == Article(<<T_product_pod>>, LinkTitle(<<"C">>), <<P_rating(T_Zero), P_noprice, P_outstock>>)
\* no stock marker at all
cBare == Article(<<T_product_pod>>, LinkTitle(<<"D">>), <<P_price>>)
\* the four shapes of a missing title
cNoH3 == Article(<<T_product_pod>>, NoH3, <<P_price, P_outstock>>)
cH3NoLink == Article(<<T_product_pod>>, H3NoLink, <<P_price, P_outstock>>)
cNoTitleAttr == Article(<<T_product_pod>>, LinkNoTitle, <<P_price, P_outstock>>)
cBlankTitle == Article(<<T_product_pod>>, LinkTitle(<<" ", " ">>), <<P_price, P_outstock>>)
\* an <article> that is no product_pod
cAside == Article(<<>>, LinkTitle(<<"E">>), <<>>)

\* The product listings a page may carry
Bodies == { <<>>,
            <<cGood, cNoH3, cPlain>>,
            <<cOut, cH3NoLink, cBare>>,
            <<cNoTitleAttr, cBlankTitle, cAside, cGood>> }

\* Tag matching of find(name, class_=c): some class token equals c, or the
\* whole class attribute does (the only way a c with a space in it matches).
RECURSIVE join(_)
join(tokens) == IF tokens = <<>> THEN <<>> ELSE IF Len(tokens) = 1 THEN tokens[1] ELSE tokens[1] \o <<" ">> \o join(Tail(tokens))

has_class(tag, c) == (\E i \in 1..Len(tag.classes) : tag.classes[i] = c) \/ (tag.classes # <<>> /\ join(tag.classes) = c)

\* find(name, class_=re.compile(c))
has_class_re(tag, c) == (\E i \in 1..Len(tag.classes) : contains(tag.classes[i], c)) \/ (tag.classes # <<>> /\ contains(join(tag.classes), c))

\* find(): index of the first of the tags ps whose index is in hits, 0 for None
find(hits) == IF hits = {} THEN 0 ELSE CHOOSE i \in hits : \A j \in hits : i <= j

\* next((c for c in classes if c.lower() != "star-rating"), None), <<>> for None
rating_word(classes) == LET i == find({k \in 1..Len(classes) : lower(classes[k]) # T_star_rating}) IN IF i = 0 THEN <<>> ELSE <<classes[i]>>

-----------------------------------------------------------------------------
\* Field Extractor: parse_products of each variant

\* RATING_MAP.get(rating_word, "")
RATING_MAP(word) ==
    IF word = <<T_One>> THEN PyInt(1)
    ELSE IF word = <<T_Two>> THEN PyInt(2)
    ELSE IF word = <<T_Three>> THEN PyInt(3)
    ELSE IF word = <<T_Four>> THEN PyInt(4)
    ELSE IF word = <<T_Five>> THEN PyInt(5)
    ELSE PyStr(<<>>)

\* scraper.py: the price of one product, a float or ''
scraper_price(product) ==
    LET i == find({k \in 1..Len(product.ps) : has_class(product.ps[k], T_price_color)})
        price_clean == re_sub_non_numeric(strip(product.ps[i].text))
    IN  IF i # 0 /\ product.ps[i].text # <<>> /\ price_clean # <<>> /\ float_ok(price_clean)
        THEN PyFloat(price_clean)
        ELSE PyStr(<<>>)

\* scraper.py: the normalized availability of one product
scraper_availability(product) ==
    LET i == find({k \in 1..Len(product.ps) : has_class(product.ps[k], join(<<T_instock, T_availability>>))})
        avail_text == IF i # 0 /\ product.ps[i].text # <<>> THEN strip(product.ps[i].text) ELSE <<>>
    IN  IF contains(lower(avail_text), S_in_stock) THEN PyStr(S_In_Stock) ELSE PyStr(S_Out_of_Stock)

\* scraper.py: the rating of one product, an int or ''
scraper_rating(product) ==
    LET i == find({k \in 1..Len(product.ps) : has_class(product.ps[k], T_star_rating)})
    IN  RATING_MAP(IF i # 0 THEN rating_word(product.ps[i].classes) ELSE <<>>)

\* scraper.py: the body of the loop over products: the rows one product adds,
\* none when the AttributeError of a missing title is caught.
scraper_product(product) ==
    IF product.h3.kind \in {"NoH3", "NoLink"} THEN <<>>
    ELSE IF strip(product.h3.title) = <<>> THEN <<>>
    ELSE << <<PyStr(strip(product.h3.title)), scraper_price(product), scraper_availability(product), scraper_rating(product)>> >>

RECURSIVE scraper_rows(_)
scraper_rows(products) == IF products = <<>> THEN <<>> ELSE scraper_product(Head(products)) \o scraper_rows(Tail(products))

\* scraper.py parse_products: the rows of a page, in document order; it never raises.
scraper_parse_products(html) ==
    [raised |-> "none", rows |-> scraper_rows(SelectSeq(html.articles, LAMBDA a : has_class(a, T_product_pod)))]

\* Advanced.py: the title of one product; <<>> when .a.get raises on None
Advanced_title(p) ==
    IF p.h3.kind = "NoH3" THEN <<PyStr(S_question)>>
    ELSE IF p.h3.kind = "NoLink" THEN <<>>
    ELSE IF p.h3.kind = "NoTitle" THEN <<PyNone>>
    ELSE <<PyStr(p.h3.title)>>

\* Advanced.py: the price text of one product, digits and points only
Advanced_price(p) ==
    LET i == find({k \in 1..Len(p.ps) : p.ps[k].solo /\ contains(p.ps[k].text, S_pound)})
    IN  IF i # 0 THEN PyStr(re_sub_non_numeric(strip(p.ps[i].text))) ELSE PyStr(<<>>)

\* Advanced.py: the availability of one product
Advanced_availability(p) ==
    LET i == find({k \in 1..Len(p.ps) : p.ps[k].solo /\ contains(lower(p.ps[k].text), S_stock)})
    IN  IF i # 0 THEN PyStr(strip(p.ps[i].text)) ELSE PyStr(S_question)

\* Advanced.py: the rating word of one product
Advanced_rating(p) ==
    LET i == find({k \in 1..Len(p.ps) : has_class_re(p.ps[k], T_star_rating)})
        word == IF i # 0 THEN rating_word(p.ps[i].classes) ELSE <<>>
    IN  IF word # <<>> THEN PyStr(word[1]) ELSE PyStr(<<>>)

\* Advanced.py: the body of the loop over products
Advanced_product(p) == <<Advanced_title(p)[1], Advanced_price(p), Advanced_availability(p), Advanced_rating(p)>>

RECURSIVE Advanced_rows(_)
Advanced_rows(products) == IF products = <<>> THEN <<>> ELSE <<Advanced_product(Head(products))>> \o Advanced_rows(Tail(products))

\* Advanced.py parse_products: the rows of a page, or the AttributeError
\* that an <h3> without <a> raises out of the function.
Advanced_parse_products(html) ==
    IF \E k \in 1..Len(html.articles) : Advanced_title(html.articles[k]) = <<>>
    THEN [raised |-> "AttributeError", rows |-> <<>>]
    ELSE [raised |-> "none", rows |-> Advanced_rows(html.articles)]

parse_products(variant, html) == IF variant = "scraper" THEN scraper_parse_products(html) ELSE Advanced_parse_products(html)

-----------------------------------------------------------------------------
\* URLs and the Pagination Navigator

\* A URL of the site: the directories of its path and its file,
\* 0 for the empty file name and n for page-n.html.
Url(dir, file) == [dir |-> dir, file |-> file]

\* "https://books.toscrape.com/"
BASE_URL == Url(<<>>, 0)

\* None, where a URL is expected
NoneUrl == Url(<<>>, -1)

\* An href: absolute ("/...") or relative to the directory of the page.
Href(abs, dir, file) == [abs |-> abs, dir |-> dir, file |-> file]

\* href=""
EmptyHref == Href(FALSE, <<>>, 0)

\* urllib.parse.urljoin(base, href), for hrefs without "..", query or fragment
urljoin(base, href) ==
    IF href = EmptyHref THEN base
    ELSE IF href.abs THEN Url(href.dir, href.file)
    ELSE Url(base.dir \o href.dir, href.file)

\* The <li class="next"> of a page: absent, without <a>, <a> without href, <a href=...>
NoNext == [kind |-> "NoNext", href |-> EmptyHref]
NextNoLink == [kind |-> "NoLink", href |-> EmptyHref]
NextNoHref == [kind |-> "NoHref", href |-> EmptyHref]
NextHref(h) == [kind |-> "Href", href |-> h]

\* What fetch_page hands to main: None, the empty text, or a document
NoneHtml == [kind |-> "None", articles |-> <<>>, next |-> NoNext]
EmptyHtml == [kind |-> "empty", articles |-> <<>>, next |-> NoNext]
Doc(articles, next) == [kind |-> "doc", articles |-> articles, next |-> next]

\* truth value of html ("if not html", Advanced.py)
truthy(html) == html.kind = "doc"

\* A faulty get_next_page: on a page without "next" marker it resolves an empty
\* target instead of returning None, so the last page leads to itself.
get_next_page_self(html, current_url) ==
    IF html.next.kind = "NoNext" THEN [raised |-> "none", url |-> urljoin(current_url, EmptyHref)]
    ELSE IF html.next.kind = "NoLink" THEN [raised |-> "TypeError", url |-> NoneUrl]
    ELSE IF html.next.kind = "NoHref" THEN [raised |-> "KeyError", url |-> NoneUrl]
    ELSE [raised |-> "none", url |-> urljoin(current_url, html.next.href)]

\* get_next_page (the same code in both files): the next URL, None on the
\* last page, or the error that next_li.a["href"] raises.
get_next_page(html, current_url) ==
    IF html.next.kind = "NoNext" THEN [raised |-> "none", url |-> NoneUrl]
    ELSE IF html.next.kind = "NoLink" THEN [raised |-> "TypeError", url |-> NoneUrl]
    ELSE IF html.next.kind = "NoHref" THEN [raised |-> "KeyError", url |-> NoneUrl]
    ELSE [raised |-> "none", url |-> urljoin(current_url, html.next.href)]

-----------------------------------------------------------------------------
\* The site and the Page Fetcher

Variants == {"scraper", "Advanced"}

Pages == 1..MaxPages

\* The URL of page n: the seed, then catalogue/page-n.html
PageUrl(n) == IF n = 1 THEN BASE_URL ELSE Url(<<"catalogue">>, n)

Urls == {PageUrl(n) : n \in Pages}

\* The href on page i that leads to page j, as the site writes it
HrefTo(i, j) ==
    IF j = 1 THEN Href(TRUE, <<>>, 0)
    ELSE IF i = 1 THEN Href(FALSE, <<"catalogue">>, j)
    ELSE Href(FALSE, <<>>, j)

\* A page of the site: an empty response body, or a document with its "next" marker:
\* none, broken, to a page of the site, to itself (href=""), or to a page that does not exist.
Skeleton(empty, next) == [empty |-> empty, next |-> next]

Skeletons(i) ==
    {Skeleton(TRUE, NoNext)} \cup
    {Skeleton(FALSE, m) : m \in {NoNext, NextNoLink, NextNoHref, NextHref(EmptyHref), NextHref(Href(FALSE, <<>>, MaxPages + 1))}} \cup
    {Skeleton(FALSE, NextHref(HrefTo(i, j))) : j \in Pages}

Sites == {s \in [Pages -> UNION {Skeletons(i) : i \in Pages}] : \A i \in Pages : s[i] \in Skeletons(i)}

\* What requests.get(url, timeout=10) followed by raise_for_status() can give:
\* a timeout, a connection error, a non-2xx status, or the text of the page.
Response(status, text) == [status |-> status, text |-> text]

Failures == {"Timeout", "ConnectionError", "HTTPError"}

Responses(site, url) ==
    {Response(f, NoneHtml) : f \in Failures} \cup
    UNION {IF PageUrl(n) # url THEN {}
           ELSE IF site[n].empty THEN {Response("ok", EmptyHtml)}
           ELSE {Response("ok", Doc(b, site[n].next)) : b \in Bodies} : n \in Pages}

\* A faulty fetch_page: the fail-hard policy in both variants
fetch_page_hard(variant, resp) ==
    IF resp.status = "ok" THEN [exit |-> FALSE, html |-> resp.text]
    ELSE [exit |-> TRUE, html |-> NoneHtml]

\* fetch_page of each variant: scraper.py calls sys.exit(1) on a failure,
\* Advanced.py returns None.
fetch_page(variant, resp) ==
    IF resp.status = "ok" THEN [exit |-> FALSE, html |-> resp.text]
    ELSE IF variant = "scraper" THEN [exit |-> TRUE, html |-> NoneHtml]
    ELSE [exit |-> FALSE, html |-> NoneHtml]

-----------------------------------------------------------------------------
\* Reporter: save_to_csv and the summary

H_Title == <<"T", "i", "t", "l", "e">>
H_Price == <<"P", "r", "i", "c", "e", " ", "(", "£", ")">>
H_Availability == <<"A", "v", "a", "i", "l", "a", "b", "i", "l", "i", "t", "y">>
H_Rating15 == <<"R", "a", "t", "i", "n", "g", " ", "(", "1", "-", "5", ")">>
H_Rating == <<"R", "a", "t", "i", "n", "g">>

\* the row given to writer.writerow
header(variant) == <<H_Title, H_Price, H_Availability, IF variant = "scraper" THEN H_Rating15 ELSE H_Rating>>

\* csv.writer: a cell is '' for None and str(value) otherwise
csv_cell(v) == IF v.type = "NoneType" THEN <<>> ELSE v.text

csv_row(row) == [j \in 1..Len(row) |-> csv_cell(row[j])]

\* A faulty writer: the first record is not written
csv_rows_tail(variant, rows) == <<header(variant)>> \o [i \in 1..(Len(rows) - 1) |-> csv_row(rows[i + 1])]

\* writer.writerow(header); writer.writerows(rows)
csv_rows(variant, rows) == <<header(variant)>> \o [i \in 1..Len(rows) |-> csv_row(rows[i])]

NoFile == [exists |-> FALSE, rows |-> <<>>]

\* The file after open(filename, "w") and the writes, when the disk takes n rows:
\* n = -1 when open() fails (the file is left as it was), n < all rows when a write fails.
written(old, content, n) == IF n < 0 THEN old ELSE [exists |-> TRUE, rows |-> SubSeq(content, 1, IF n < Len(content) THEN n ELSE Len(content))]

\* save_to_csv of each variant.  scraper.py writes nothing for no rows and
\* catches a failed write; Advanced.py lets the error out.
save_to_csv(variant, rows, old, n) ==
    LET content == csv_rows(variant, rows)
        failed == n < Len(content)
    IN  IF variant = "scraper" /\ rows = <<>> THEN [result |-> "skipped", file |-> old, raised |-> "none"]
        ELSE IF ~failed THEN [result |-> "ok", file |-> written(old, content, n), raised |-> "none"]
        ELSE [result |-> "failed", file |-> written(old, content, n), raised |-> IF variant = "scraper" THEN "none" ELSE "OSError"]

\* scraper.py main, lines 129-146: the counts of the summary (the two averages
\* are printed only and are left out)
summarize(rows) ==
    LET prices == {i \in 1..Len(rows) : rows[i][2].type \in {"int", "float"}}
        ratings == {i \in 1..Len(rows) : rows[i][4].type = "int"}
    IN  [total |-> Len(rows), prices |-> Cardinality(prices), ratings |-> Cardinality(ratings),
         rating_counts |-> [star \in 1..5 |-> Cardinality({i \in ratings : rows[i][4] = PyInt(star)})]]

\* all_rows.extend(page_rows)
extend(all_rows, page_rows) == all_rows \o page_rows

-----------------------------------------------------------------------------
\* Pipeline Driver: main() of each variant

VARIABLES
    variant,     \* which file runs: "scraper" or "Advanced"
    site,        \* the pages the site serves during the run
    pc,          \* position in main: Fetching, Extracting, Navigating, Done, Summary, Exited
    url,         \* main's url
    html,        \* main's html
    all_rows,    \* main's all_rows, the accumulator
    file,        \* the output file
    exit,        \* exit status of the process, -1 while it runs
    fault,       \* the exception that ended the process, "none" otherwise
    fetched,     \* history: the URLs requested, in order
    lastFetch,   \* history: the outcome of the last request
    extracted,   \* history: the rows parse_products returned, page by page
    nsleep,      \* history: number of time.sleep calls
    nsave,       \* history: number of save_to_csv calls
    saved,       \* history: the rows given to the last save_to_csv call
    saveResult,  \* history: how the last save_to_csv call ended
    summary      \* history: the summary printed, <<>> when none

vars == <<variant, site, pc, url, html, all_rows, file, exit, fault, fetched, lastFetch, extracted, nsleep, nsave, saved, saveResult, summary>>

\* main, lines "url = BASE_URL; all_rows = []", for either file on any site
Init ==
    /\ variant \in Variants
    /\ site \in Sites
    /\ pc = "Fetching"
    /\ url = BASE_URL
    /\ html = NoneHtml
    /\ all_rows = <<>>
    /\ file = NoFile
    /\ exit = -1
    /\ fault = "none"
    /\ fetched = <<>>
    /\ lastFetch = "none"
    /\ extracted = <<>>
    /\ nsleep = 0
    /\ nsave = 0
    /\ saved = <<>>
    /\ saveResult = "none"
    /\ summary = <<>>

\* The process ends with an uncaught exception or sys.exit(1)
Die(why) ==
    /\ pc' = "Exited"
    /\ exit' = 1
    /\ fault' = why

\* html = fetch_page(url), and in Advanced.py "if not html: break"
Fetch ==
    /\ pc = "Fetching"
    /\ Len(fetched) < MaxFetches
    /\ \E resp \in Responses(site, url) :
        LET r == fetch_page(variant, resp)
        IN  /\ fetched' = Append(fetched, url)
            /\ lastFetch' = resp.status
            /\ IF r.exit
               THEN Die("SystemExit") /\ UNCHANGED html
               ELSE /\ html' = r.html
                    /\ pc' = IF variant = "Advanced" /\ ~truthy(r.html) THEN "Done" ELSE "Extracting"
                    /\ UNCHANGED <<exit, fault>>
    /\ UNCHANGED <<variant, site, url, all_rows, file, extracted, nsleep, nsave, saved, saveResult, summary>>

\* page_rows = parse_products(html); all_rows.extend(page_rows)
Extract ==
    /\ pc = "Extracting"
    /\ LET r == parse_products(variant, html)
       IN  IF r.raised # "none"
           THEN Die(r.raised) /\ UNCHANGED <<all_rows, extracted>>
           ELSE /\ all_rows' = extend(all_rows, r.rows)
                /\ extracted' = Append(extracted, r.rows)
                /\ pc' = "Navigating"
                /\ UNCHANGED <<exit, fault>>
    /\ UNCHANGED <<variant, site, url, html, file, fetched, lastFetch, nsleep, nsave, saved, saveResult, summary>>

\* next_url = get_next_page(html, url); scraper.py sleeps when there is one;
\* url = next_url; then the test of "while url"
Navigate ==
    /\ pc = "Navigating"
    /\ LET r == get_next_page(html, url)
       IN  IF r.raised # "none"
           THEN Die(r.raised) /\ UNCHANGED <<url, nsleep>>
           ELSE /\ url' = r.url
                /\ nsleep' = IF variant = "scraper" /\ r.url # NoneUrl THEN nsleep + 1 ELSE nsleep
                /\ pc' = IF r.url # NoneUrl THEN "Fetching" ELSE "Done"
                /\ UNCHANGED <<exit, fault>>
    /\ UNCHANGED <<variant, site, html, all_rows, file, fetched, lastFetch, extracted, nsave, saved, saveResult, summary>>

\* save_to_csv(all_rows), the disk taking n rows; Advanced.py then ends main
Save ==
    /\ pc = "Done"
    /\ \E n \in -1..(Len(all_rows) + 1) :
        LET r == save_to_csv(variant, all_rows, file, n)
        IN  /\ file' = r.file
            /\ saveResult' = r.result
            /\ IF r.raised # "none" THEN Die(r.raised)
               ELSE IF variant = "scraper" THEN pc' = "Summary" /\ UNCHANGED <<exit, fault>>
               ELSE pc' = "Exited" /\ exit' = 0 /\ UNCHANGED fault
    /\ nsave' = nsave + 1
    /\ saved' = all_rows
    /\ UNCHANGED <<variant, site, url, html, all_rows, fetched, lastFetch, extracted, nsleep, summary>>

\* scraper.py: the summary statistics, then main returns
Summary ==
    /\ pc = "Summary"
    /\ summary' = <<summarize(all_rows)>>
    /\ pc' = "Exited"
    /\ exit' = 0
    /\ UNCHANGED <<variant, site, url, html, all_rows, file, fault, fetched, lastFetch, extracted, nsleep, nsave, saved, saveResult>>

Next == Fetch \/ Extract \/ Navigate \/ Save \/ Summary

Spec == Init /\ [][Next]_vars

-----------------------------------------------------------------------------
\* Properties

\* The rows of all pages, in page order
RECURSIVE Flatten(_)
Flatten(pages) == IF pages = <<>> THEN <<>> ELSE Head(pages) \o Flatten(Tail(pages))

\* A product container as the variant selects it, and whether it carries a title
IsProduct(a) == variant = "Advanced" \/ has_class(a, T_product_pod)

HasTitle(a) == a.h3.kind = "Title" /\ strip(a.h3.title) # <<>>

\* The chain of "next" links from the seed, as far as n URLs
NextOf(u) ==
    LET hit == {k \in Pages : PageUrl(k) = u /\ ~site[k].empty /\ site[k].next.kind = "Href"}
    IN  IF hit = {} THEN NoneUrl ELSE urljoin(u, site[CHOOSE k \in hit : TRUE].next.href)

RECURSIVE Chain(_, _)
Chain(u, n) == IF u = NoneUrl \/ n = 0 THEN <<>> ELSE <<u>> \o Chain(NextOf(u), n - 1)

\* The chain is finite and acyclic: it ends before a URL comes twice
WellFormed == LET c == Chain(BASE_URL, MaxPages + 2) IN \A i, j \in 1..Len(c) : c[i] = c[j] => i = j

IsPrefix(a, b) == Len(a) <= Len(b) /\ SubSeq(b, 1, Len(a)) = a

\* C1: every record in the accumulator has a title that is a non-empty text:
\* never None, blank or the placeholder "?", in either variant.
TitlesNonEmpty ==
    \A i \in 1..Len(all_rows) :
        /\ all_rows[i][1].type = "str"
        /\ strip(all_rows[i][1].text) # <<>>
        /\ all_rows[i][1].text # S_question

\* C2: the availability of every record in the accumulator is one of the two
\* canonical values, never the raw text of the page or a placeholder.
AvailabilityCanonical ==
    \A i \in 1..Len(all_rows) : all_rows[i][3] \in {PyStr(S_In_Stock), PyStr(S_Out_of_Stock)}

\* C3: when the page just fetched and extracted has no "next" marker, the
\* navigation step leaves the loop (Done, url None) with no further request and
\* no pause; after the loop nothing is requested, extracted or paused for, and
\* the reporter is given the accumulator.
PaginationTermination ==
    /\ [][(pc = "Navigating" /\ html.next.kind = "NoNext") =>
            (pc' = "Done" /\ url' = NoneUrl /\ fetched' = fetched /\ nsleep' = nsleep /\ all_rows' = all_rows)]_vars
    /\ [][(pc \in {"Done", "Summary", "Exited"}) =>
            (fetched' = fetched /\ nsleep' = nsleep /\ extracted' = extracted /\ pc' \in {"Summary", "Exited"})]_vars
    /\ [](nsave >= 1 => saved = all_rows)

\* C3 witness: scraper.py has left the loop on the second page, which has no
\* "next" marker, after one pause and two requests.
PaginationTerminationWitness ==
    /\ variant = "scraper"
    /\ pc = "Done"
    /\ html.kind = "doc"
    /\ html.next.kind = "NoNext"
    /\ Len(fetched) = 2
    /\ nsleep = 1
    /\ Len(extracted) = 2

\* C4: in Advanced.py, once the request of the k-th page has failed, nothing
\* more is requested, extracted or navigated, and save_to_csv is called exactly
\* once, with exactly the rows of pages 1..k-1 in order.
FailSoftPartialResults ==
    (variant = "Advanced" /\ lastFetch \in Failures) =>
        /\ pc \in {"Done", "Exited"}
        /\ Len(extracted) = Len(fetched) - 1
        /\ all_rows = Flatten(extracted)
        /\ (pc = "Done" => nsave = 0)
        /\ (pc = "Exited" => nsave = 1 /\ saved = Flatten(extracted))

\* C4 witness: the request of the second page failed and the rows of the
\* first page were handed to save_to_csv.
FailSoftPartialResultsWitness ==
    /\ variant = "Advanced"
    /\ lastFetch \in Failures
    /\ Len(fetched) = 2
    /\ pc = "Exited"
    /\ nsave = 1
    /\ saved # <<>>
    /\ saveResult = "ok"

\* C5: a product container without a title is dropped alone: extraction never
\* ends the run with an error, and the rows of a page are those of its
\* containers that carry a title, one each.
MissingTitleIsRecordLocal ==
    /\ fault # "AttributeError"
    /\ (pc = "Navigating" =>
            Len(extracted[Len(extracted)]) = Cardinality({k \in 1..Len(html.articles) : IsProduct(html.articles[k]) /\ HasTitle(html.articles[k])}))

\* C6: the navigator never fails: the driver leaves Navigating only to
\* Fetching or Done, whatever the shape of the "next" marker.
NavigatorNeverFails == [][pc = "Navigating" => pc' \in {"Fetching", "Done"}]_vars

\* The file holds the header row and then one row per record of rows, in order
FileHolds(rows) ==
    /\ file.exists
    /\ Len(file.rows) = Len(rows) + 1
    /\ file.rows[1] = header(variant)
    /\ \A i \in 1..Len(rows) : file.rows[i + 1] = <<csv_cell(rows[i][1]), csv_cell(rows[i][2]), csv_cell(rows[i][3]), csv_cell(rows[i][4])>>

\* C7 as stated: after save_to_csv has run without a write failure, the file
\* holds the header row and one row per record, the empty accumulator
\* (header row only) included, in both variants.
PersistWritesAll == (nsave = 1 /\ saveResult # "failed") => FileHolds(all_rows)

\* C7 amended: after a write that succeeded the file holds the header row and
\* one row per record of the accumulator, in order; Advanced.py writes for
\* every accumulator, scraper.py for every non-empty one, and for the empty
\* accumulator scraper.py writes nothing and leaves the file as it was.
PersistWritesAllAmended ==
    /\ (saveResult = "ok" => saved = all_rows /\ FileHolds(all_rows))
    /\ (saveResult = "skipped" <=> (nsave = 1 /\ variant = "scraper" /\ all_rows = <<>>))
    /\ (saveResult = "skipped" => file = NoFile)

\* C7 witness: a file of three or more records has been written
PersistWritesAllWitness ==
    /\ saveResult = "ok"
    /\ Len(all_rows) >= 3
    /\ Len(file.rows) = Len(all_rows) + 1

\* C8: the exit status is zero only after the loop ended normally and the
\* output was not lost; a fail-hard request failure exits non-zero with no
\* save and no summary; a failed write is never followed by a zero exit.
ExitStatusClassifiesOutcome ==
    pc = "Exited" =>
        /\ (exit = 0 => fault = "none" /\ nsave = 1)
        /\ (fault = "SystemExit" => exit # 0 /\ nsave = 0 /\ summary = <<>>)
        /\ (saveResult = "failed" => exit # 0)

\* C9: in Advanced.py the driver goes from Fetching straight to Done only when
\* the request failed: a page whose request succeeded has been extracted
\* before the loop is left.
FetchingLeavesByOutcome ==
    (variant = "Advanced" /\ pc = "Done" /\ lastFetch = "ok") => Len(extracted) = Len(fetched)

\* C10: on a site whose chain of "next" links is finite and acyclic the URLs
\* requested are a prefix of the chain, each once, and a run that has ended
\* has been through Done or was ended by a fail-hard request failure; a run
\* that is at Done after only successful requests was on such a site.
WellFormedRunReachesDone ==
    /\ (WellFormed => IsPrefix(fetched, Chain(BASE_URL, MaxPages + 2)))
    /\ (WellFormed /\ pc = "Exited" => nsave = 1 \/ fault = "SystemExit")
    /\ (pc = "Done" /\ lastFetch = "ok" => WellFormed)

====
